---- MODULE Spec2Model ----
(***************************************************************************)
(* Model of the EEG loading / preprocessing layer:                         *)
(*   src/src/dataloader.py  Dataloader (load_data, create_mne_raw)         *)
(*   src/src/processor.py   EEGProcessor (process, remove_artifacts_ica)   *)
(*   src/src/utils.py       save_raw, load_raw                             *)
(* Python objects live in a heap (a sequence of containers, the index is   *)
(* the object identity); an exception is the field exc of the record of    *)
(* the last call.                                                          *)
(***************************************************************************)
EXTENDS Integers, Sequences, FiniteSets, TLC

VARIABLES channel_names, raw_data, actual_channel_names, _mne_raw,
          same_load, _config, heap, fs, last, nloads

vars == <<channel_names, raw_data, actual_channel_names, _mne_raw,
          same_load, _config, heap, fs, last, nloads>>

loaderVars == <<channel_names, raw_data, actual_channel_names, _mne_raw, same_load>>

----------------------------------------------------------------------------
(* Bounds of the model *)

MaxCols == 3
MaxRows == 2
MaxObjs == 1
MaxLoads == 1

----------------------------------------------------------------------------
(* Python values *)

None == [none |-> TRUE]
Some(x) == [none |-> FALSE, v |-> x]

Range(s) == {s[i] : i \in 1..Len(s)}

Max(S) == CHOOSE m \in S : \A n \in S : n <= m

Abs(n) == IF n < 0 THEN -n ELSE n

DEFAULT_CHANNEL_NAMES ==
    <<"C3", "C4", "O1", "O2", "Cz", "F3", "F4", "F7", "F8",
      "Fp1", "Fp2", "P3", "P4", "Pz", "T3", "T4", "T5", "T6">>

sampling_rate == 256

----------------------------------------------------------------------------
(* The delimited text file and its parsing (pandas) *)

\* the value in line r, column k of a file (both counted from 1)
Cell(r, k) == 10 * r + k

\* number of leading lines a header specification consumes
HeaderRows(header) ==
    IF header.kind = "none" THEN 0 ELSE Max(Range(header.rows)) + 1

\* pd.read_csv(path, header=...): the data lines below the header
ReadCsv(f, header) ==
    LET h == HeaderRows(header)
    IN  [columns |-> [k \in 1..f.K |-> k],
         values  |-> [r \in 1..(f.R - h) |-> [k \in 1..f.K |-> Cell(h + r, k)]]]

\* position p of df.columns, 0-based, negative from the end; 0 when out of range
ColumnAt(df, p) ==
    LET n == Len(df.columns)
    IN  IF p >= 0 /\ p < n THEN df.columns[p + 1]
        ELSE IF p < 0 /\ p >= -n THEN df.columns[n + p + 1]
        ELSE 0

\* df.drop(df.columns[list(drop_columns)], axis=1)
DropColumns(df, drop_columns) ==
    LET labels == {ColumnAt(df, drop_columns[i]) : i \in 1..Len(drop_columns)}
        keep   == SelectSeq([k \in 1..Len(df.columns) |-> k],
                            LAMBDA k : df.columns[k] \notin labels)
    IN  [columns |-> [c \in 1..Len(keep) |-> df.columns[keep[c]]],
         values  |-> [r \in 1..Len(df.values) |->
                        [c \in 1..Len(keep) |-> df.values[r][keep[c]]]]]

\* df.to_numpy() : shape (samples, channels)
ToNumpy(df) ==
    LET C == Len(df.columns)
        S == Len(df.values)
    IN  [shape |-> <<S, C>>,
         at    |-> [s \in 1..S |-> [c \in 1..C |-> df.values[s][c]]]]

\* df.to_numpy().T : shape (channels, samples)
ToNumpyT(df) ==
    LET C == Len(df.columns)
        S == Len(df.values)
    IN  [shape |-> <<C, S>>,
         at    |-> [c \in 1..C |-> [s \in 1..S |-> df.values[s][c]]]]

\* names[-n :]
TruncateTail(names, n) == SubSeq(names, Len(names) - n + 1, Len(names))

\* names[: n]
Truncate(names, n) == SubSeq(names, 1, n)

----------------------------------------------------------------------------
(* Dataloader.__init__ *)

\* channel name lists a loader is constructed with (None selects the default)
CtorNames ==
    {None, Some(<<"O2", "X1">>)}

LoaderInit ==
    /\ \E cn \in CtorNames :
          channel_names = IF cn.none THEN DEFAULT_CHANNEL_NAMES ELSE cn.v
    /\ raw_data = None
    /\ actual_channel_names = None
    /\ _mne_raw = 0
    /\ same_load = TRUE

----------------------------------------------------------------------------
(* Dataloader.load_data *)

Truthy(seqOpt) == ~seqOpt.none /\ seqOpt.v # <<>>

load_data(filepath, header, drop_columns, names_arg) ==
    LET args == [filepath |-> filepath, header |-> header,
                 drop_columns |-> drop_columns, channel_names |-> names_arg]
        raise(e) == /\ last' = [op |-> "load_data", exc |-> e, args |-> args, ret |-> None]
                    /\ UNCHANGED <<raw_data, actual_channel_names, same_load>>
    IN  /\ UNCHANGED <<channel_names, _mne_raw, _config, heap, fs>>
        /\ IF ~filepath.exists
           THEN raise("FileNotFoundError")
           ELSE IF HeaderRows(header) > filepath.R
           THEN raise("ParserError")
           ELSE LET df0 == ReadCsv(filepath, header)
                IN  IF Truthy(drop_columns)
                       /\ \E i \in 1..Len(drop_columns.v) : ColumnAt(df0, drop_columns.v[i]) = 0
                    THEN raise("IndexError")
                    ELSE LET df == IF Truthy(drop_columns)
                                   THEN DropColumns(df0, drop_columns.v) ELSE df0
                             data_arr == ToNumpyT(df)
                             names == IF names_arg.none THEN channel_names ELSE names_arg.v
                         IN  /\ raw_data' = Some(data_arr)
                             /\ IF Len(names) < data_arr.shape[1]
                                THEN /\ UNCHANGED actual_channel_names
                                     /\ same_load' = FALSE
                                     /\ last' = [op |-> "load_data",
                                                 exc |-> "ValueError: Not enough channel names provided",
                                                 args |-> args, ret |-> None]
                                ELSE /\ actual_channel_names' = Some(Truncate(names, data_arr.shape[1]))
                                     /\ same_load' = TRUE
                                     /\ last' = [op |-> "load_data", exc |-> "none",
                                                 args |-> args, ret |-> Some(data_arr)]

\* input files: one path that does not exist, and a file of K columns and R
\* lines for every K and R within the bounds
Paths ==
    {[exists |-> FALSE, K |-> 0, R |-> 0]}
    \cup {[exists |-> TRUE, K |-> k, R |-> r] : k \in 1..MaxCols, r \in 1..MaxRows}

Headers ==
    {[kind |-> "none", rows |-> <<>>], [kind |-> "int", rows |-> <<0>>],
     [kind |-> "int", rows |-> <<1>>], [kind |-> "list", rows |-> <<0, 1>>]}

DropArgs ==
    {None, Some(<<>>), Some(<<0, -1>>), Some(<<1, 1>>), Some(<<MaxCols>>)}

NameArgs == {None, Some(<<"P3">>), Some(<<"C4", "C3", "Pz">>)}

\* the recordings the loader is driven with next to create_mne_raw and save_raw:
\* a missing file, two recordings, and one whose only line is the header
SessionLoads ==
    LET none == [kind |-> "none", rows |-> <<>>]
    IN  {[filepath |-> [exists |-> FALSE, K |-> 0, R |-> 0], header |-> none],
         [filepath |-> [exists |-> TRUE, K |-> 1, R |-> 1], header |-> none],
         [filepath |-> [exists |-> TRUE, K |-> 2, R |-> 2], header |-> none],
         [filepath |-> [exists |-> TRUE, K |-> 1, R |-> 1],
          header |-> [kind |-> "int", rows |-> <<0>>]]}

SessionNames == {None, Some(<<"P3">>)}

----------------------------------------------------------------------------
(* The signal-processing library, as far as the callers depend on it *)

ValidChTypes == {"eeg", "misc"}

\* mne.create_info(ch_names, sfreq, ch_types) accepts a list of names and
\* one valid type per name
CreateInfoOk(ch_names, ch_types_list) ==
    /\ ~ch_names.none
    /\ Len(ch_names.v) = Len(ch_types_list)
    /\ Range(ch_types_list) \subseteq ValidChTypes

\* mne.io.RawArray(data, info) needs one row of data per channel of info
RawArrayOk(data, ch_names) == data.shape[1] = Len(ch_names)

\* a matrix without channels or without samples: the library may refuse it
Degenerate(data) == data.shape[1] = 0 \/ data.shape[2] = 0

\* electrode positions a montage knows
MontagePositions(name) ==
    IF name = "standard_1020" THEN Range(DEFAULT_CHANNEL_NAMES)
    ELSE IF name = "custom" THEN {"C3", "C4", "X1"}
    ELSE {}

\* mne.channels.make_standard_montage(name)
StandardMontages == {"standard_1020"}

\* raw.set_montage(montage_obj): every EEG channel needs a position
SetMontageOk(ch_names, ch_types_list, montage_name) ==
    \A i \in 1..Len(ch_names) :
        ch_types_list[i] = "eeg" => ch_names[i] \in MontagePositions(montage_name)

Container(data, ch_names, ch_types_list, montage_name) ==
    [data |-> data, ch_names |-> ch_names, ch_types |-> ch_types_list,
     sfreq |-> sampling_rate, montage |-> montage_name, preload |-> TRUE,
     applied |-> <<>>, projs |-> <<>>, bads |-> {}]

----------------------------------------------------------------------------
(* Dataloader.create_mne_raw *)

\* [ch_types] * (n_channels + 1)
RepeatOneMore(x, n) == [i \in 1..(n + 1) |-> x]

\* [ch_types] * n_channels
Repeat(x, n) == [i \in 1..n |-> x]

\* self._mne_raw = raw moved before the montage is applied
create_mne_raw_early(ch_types, montage, lib_ok) ==
    LET raise(e, ctl) ==
            /\ last' = [op |-> "create_mne_raw", exc |-> e, ch_types |-> ch_types,
                        ch_types_list |-> ctl, ret |-> 0]
            /\ UNCHANGED <<_mne_raw, heap>>
    IN  /\ UNCHANGED <<channel_names, raw_data, actual_channel_names, same_load, _config, fs>>
        /\ IF raw_data.none
           THEN raise("ValueError: No data loaded", None)
           ELSE LET n_channels == raw_data.v.shape[1]
                IN  IF ch_types.kind = "seq" /\ Len(ch_types.seq) # n_channels
                    THEN raise("ValueError: Length of ch_types", None)
                    ELSE IF ch_types.kind \notin {"str", "seq"}
                    THEN raise("TypeError: ch_types", None)
                    ELSE LET ch_types_list == IF ch_types.kind = "str"
                                              THEN Repeat(ch_types.s, n_channels)
                                              ELSE ch_types.seq
                             montage_name == montage.name
                         IN  IF \/ ~CreateInfoOk(actual_channel_names, ch_types_list)
                                \/ ~RawArrayOk(raw_data.v, actual_channel_names.v)
                                \/ (Degenerate(raw_data.v) /\ ~lib_ok)
                             THEN raise("LibraryError", Some(ch_types_list))
                             ELSE IF \/ (montage.kind = "str" /\ montage_name \notin StandardMontages)
                                     \/ ~SetMontageOk(actual_channel_names.v, ch_types_list, montage_name)
                             THEN /\ Len(heap) < MaxObjs
                                  /\ heap' = Append(heap,
                                         Container(raw_data.v, actual_channel_names.v,
                                                   ch_types_list, "none"))
                                  /\ _mne_raw' = Len(heap) + 1
                                  /\ last' = [op |-> "create_mne_raw", exc |-> "LibraryError",
                                              ch_types |-> ch_types,
                                              ch_types_list |-> Some(ch_types_list),
                                              ret |-> 0]
                             ELSE /\ Len(heap) < MaxObjs
                                  /\ heap' = Append(heap,
                                         Container(raw_data.v, actual_channel_names.v,
                                                   ch_types_list, montage_name))
                                  /\ _mne_raw' = Len(heap) + 1
                                  /\ last' = [op |-> "create_mne_raw", exc |-> "none",
                                              ch_types |-> ch_types,
                                              ch_types_list |-> Some(ch_types_list),
                                              ret |-> Len(heap) + 1]

create_mne_raw(ch_types, montage, lib_ok) ==
    LET raise(e, ctl) ==
            /\ last' = [op |-> "create_mne_raw", exc |-> e, ch_types |-> ch_types,
                        ch_types_list |-> ctl, ret |-> 0]
            /\ UNCHANGED <<_mne_raw, heap>>
    IN  /\ UNCHANGED <<channel_names, raw_data, actual_channel_names, same_load, _config, fs>>
        /\ IF raw_data.none
           THEN raise("ValueError: No data loaded", None)
           ELSE LET n_channels == raw_data.v.shape[1]
                IN  IF ch_types.kind = "seq" /\ Len(ch_types.seq) # n_channels
                    THEN raise("ValueError: Length of ch_types", None)
                    ELSE IF ch_types.kind \notin {"str", "seq"}
                    THEN raise("TypeError: ch_types", None)
                    ELSE LET ch_types_list == IF ch_types.kind = "str"
                                              THEN Repeat(ch_types.s, n_channels)
                                              ELSE ch_types.seq
                             montage_name == montage.name
                         IN  IF \/ ~CreateInfoOk(actual_channel_names, ch_types_list)
                                \/ ~RawArrayOk(raw_data.v, actual_channel_names.v)
                                \/ (Degenerate(raw_data.v) /\ ~lib_ok)
                                \/ (montage.kind = "str" /\ montage_name \notin StandardMontages)
                                \/ ~SetMontageOk(actual_channel_names.v, ch_types_list, montage_name)
                             THEN raise("LibraryError", Some(ch_types_list))
                             ELSE /\ Len(heap) < MaxObjs
                                  /\ heap' = Append(heap,
                                         Container(raw_data.v, actual_channel_names.v,
                                                   ch_types_list, montage_name))
                                  /\ _mne_raw' = Len(heap) + 1
                                  /\ last' = [op |-> "create_mne_raw", exc |-> "none",
                                              ch_types |-> ch_types,
                                              ch_types_list |-> Some(ch_types_list),
                                              ret |-> Len(heap) + 1]

ChTypeArgs ==
    {[kind |-> "str", s |-> t, seq |-> <<>>] : t \in {"eeg", "bogus"}}
    \cup {[kind |-> "seq", s |-> "", seq |-> q] :
             q \in {<<"eeg">>, <<"eeg", "misc">>, <<"eeg", "eeg", "eeg">>}}
    \cup {[kind |-> "other", s |-> "", seq |-> <<>>]}

MontageArgs ==
    {[kind |-> "str", name |-> "standard_1020"], [kind |-> "str", name |-> "standard_9999"],
     [kind |-> "obj", name |-> "custom"]}

----------------------------------------------------------------------------
(* utils.save_raw *)

Filenames == {"out.fif"}

\* raw.save(filename, overwrite=overwrite): refuses an existing file unless
\* overwrite is set
RawSave(fsys, c, filename, overwrite) ==
    IF ~fsys[filename].none /\ ~overwrite
    THEN [exc |-> "FileExistsError", fs |-> fsys]
    ELSE [exc |-> "none", fs |-> [fsys EXCEPT ![filename] = Some(c)]]

\* the isinstance test left out: whatever is passed is asked to save itself
save_raw_unchecked(raw, filename, overwrite) ==
    LET args == [raw |-> raw, filename |-> filename, overwrite |-> overwrite]
    IN  /\ UNCHANGED <<loaderVars, _config, heap>>
        /\ IF raw.kind # "BaseRaw"
           THEN /\ last' = [op |-> "save_raw", exc |-> "AttributeError",
                            args |-> args, saves |-> <<>>]
                /\ UNCHANGED fs
           ELSE LET r == RawSave(fs, heap[raw.id], filename, overwrite)
                IN  /\ fs' = r.fs
                    /\ last' = [op |-> "save_raw", exc |-> r.exc, args |-> args,
                                saves |-> <<[raw |-> raw.id, filename |-> filename,
                                             overwrite |-> overwrite]>>]

save_raw(raw, filename, overwrite) ==
    LET args == [raw |-> raw, filename |-> filename, overwrite |-> overwrite]
    IN  /\ UNCHANGED <<loaderVars, _config, heap>>
        /\ IF raw.kind # "BaseRaw"
           THEN /\ last' = [op |-> "save_raw", exc |-> "TypeError: Expected 'raw'",
                            args |-> args, saves |-> <<>>]
                /\ UNCHANGED fs
           ELSE LET r == RawSave(fs, heap[raw.id], filename, overwrite)
                IN  /\ fs' = r.fs
                    /\ last' = [op |-> "save_raw", exc |-> r.exc, args |-> args,
                                saves |-> <<[raw |-> raw.id, filename |-> filename,
                                             overwrite |-> overwrite]>>]

\* what a caller can pass as raw: a container of the heap, or something else
\* (None, the loader's raw_data array)
RawArgs(h) ==
    {[kind |-> "BaseRaw", id |-> i] : i \in 1..Len(h)} \cup {[kind |-> "other", id |-> 0]}

----------------------------------------------------------------------------
(* EEGProcessingConfig *)

DefaultConfig ==
    [high_pass |-> Some(1), low_pass |-> Some(80), notch_freqs |-> <<60, 120>>,
     picks |-> "eeg", fir_design |-> "firwin", reference |-> "average",
     projection |-> FALSE]

\* configurations a processor is constructed with
Configs ==
    {DefaultConfig,
     [DefaultConfig EXCEPT !.projection = TRUE],
     [DefaultConfig EXCEPT !.high_pass = None, !.notch_freqs = <<>>,
                           !.reference = "Cz", !.projection = TRUE]}

----------------------------------------------------------------------------
(* The library's operations on a container.  They act on the container   *)
(* they are called on (in place); the data is kept as the loaded matrix   *)
(* and the list of transformations applied to it.                         *)

\* the selection picks names at least one channel
PicksOk(c, picks) == \E i \in 1..Len(c.ch_types) : c.ch_types[i] = picks

\* raw.filter(l_freq, h_freq, picks, fir_design, skip_by_annotation="edge")
Filter(c, l_freq, h_freq, picks, fir_design) ==
    [c EXCEPT !.applied = Append(@, [fn |-> "filter", l_freq |-> l_freq, h_freq |-> h_freq,
                                     picks |-> picks, fir_design |-> fir_design])]

\* raw.notch_filter(freqs, picks, filter_length="auto", method="spectrum_fit")
NotchFilter(c, freqs, picks) ==
    [c EXCEPT !.applied = Append(@, [fn |-> "notch_filter", freqs |-> freqs, picks |-> picks])]

\* raw.set_eeg_reference(ref_channels, projection): as a projection only the
\* average reference is possible, and it is recorded, not applied
SetEegReferenceOk(ref_channels, projection) == projection => ref_channels = "average"

SetEegReference(c, ref_channels, projection) ==
    IF projection
    THEN [c EXCEPT !.projs = Append(@, "Average EEG reference")]
    ELSE [c EXCEPT !.applied = Append(@, [fn |-> "set_eeg_reference",
                                          ref_channels |-> ref_channels])]

\* ica.apply(raw) with ica.exclude = exclude
IcaApply(c, exclude) ==
    [c EXCEPT !.applied = Append(@, [fn |-> "ica.apply", exclude |-> exclude])]

\* mne.pick_types(info, eeg=True, exclude="bads"): positions of the EEG channels
PickTypesEeg(c) ==
    SelectSeq([i \in 1..Len(c.ch_names) |-> i],
              LAMBDA i : c.ch_types[i] = "eeg" /\ c.ch_names[i] \notin c.bads)

----------------------------------------------------------------------------
(* EEGProcessor.  A call threads a record w through its statements: the   *)
(* heap, the library calls completed so far, the exception raised (once   *)
(* one is raised the remaining statements are skipped) and the value the  *)
(* last statement returned.                                               *)

Enter(h) == [heap |-> h, calls |-> <<>>, exc |-> "none", ret |-> 0]

Call(w, fn, raw, out) ==
    [heap  |-> [w.heap EXCEPT ![raw] = out],
     calls |-> Append(w.calls, [fn |-> fn, raw |-> raw, arg |-> w.heap[raw], out |-> out]),
     exc   |-> "none",
     ret   |-> raw]

\* no copy: the container itself
RawAlias(w, raw) == [w EXCEPT !.ret = raw]

\* raw.copy(): a new container with the same content
RawCopy(w, raw) ==
    [w EXCEPT !.heap = Append(w.heap, w.heap[raw]), !.ret = Len(w.heap) + 1]

\* .load_data(): the data of the container is read into memory
RawLoadData(w, raw) ==
    [w EXCEPT !.heap = [w.heap EXCEPT ![raw].preload = TRUE], !.ret = raw]

_apply_bandpass_filter(w, raw) ==
    IF w.exc # "none" THEN w
    ELSE IF ~PicksOk(w.heap[raw], _config.picks) THEN [w EXCEPT !.exc = "LibraryError"]
    ELSE Call(w, "filter", raw,
              Filter(w.heap[raw], _config.high_pass, _config.low_pass,
                     _config.picks, _config.fir_design))

_apply_notch_filter(w, raw) ==
    IF w.exc # "none" THEN w
    ELSE IF ~PicksOk(w.heap[raw], _config.picks) THEN [w EXCEPT !.exc = "LibraryError"]
    ELSE Call(w, "notch_filter", raw,
              NotchFilter(w.heap[raw], _config.notch_freqs, _config.picks))

_apply_reference(w, raw) ==
    IF w.exc # "none" THEN w
    ELSE IF ~SetEegReferenceOk(_config.reference, _config.projection)
    THEN [w EXCEPT !.exc = "LibraryError"]
    ELSE Call(w, "set_eeg_reference", raw,
              SetEegReference(w.heap[raw], _config.reference, _config.projection))

\* the heap a call leaves: everything it returned or was given stays, the
\* objects only it knew are gone when it raises
Leave(w, h) == IF w.exc = "none" THEN w.heap ELSE SubSeq(w.heap, 1, Len(h))

\* the reference applied before the filters
process_reference_first(raw) ==
    LET w0 == RawCopy(Enter(heap), raw)
        w1 == RawLoadData(w0, w0.ret)
        w2 == _apply_reference(w1, w1.ret)
        w3 == _apply_bandpass_filter(w2, w2.ret)
        w4 == _apply_notch_filter(w3, w3.ret)
    IN  /\ heap' = Leave(w4, heap)
        /\ last' = [op |-> "process", exc |-> w4.exc, raw |-> raw, calls |-> w4.calls,
                    ret |-> IF w4.exc = "none" THEN w4.ret ELSE 0]
        /\ UNCHANGED <<loaderVars, _config, fs, nloads>>

process(raw) ==
    LET w0 == RawCopy(Enter(heap), raw)
        w1 == RawLoadData(w0, w0.ret)
        w2 == _apply_bandpass_filter(w1, w1.ret)
        w3 == _apply_notch_filter(w2, w2.ret)
        w4 == _apply_reference(w3, w3.ret)
    IN  /\ heap' = Leave(w4, heap)
        /\ last' = [op |-> "process", exc |-> w4.exc, raw |-> raw, calls |-> w4.calls,
                    ret |-> IF w4.exc = "none" THEN w4.ret ELSE 0]
        /\ UNCHANGED <<loaderVars, _config, fs, nloads>>

----------------------------------------------------------------------------
(* The operator's answer to the prompt of the manual review: a string,    *)
(* here the sequence of its characters                                    *)

Digits == <<"0", "1", "2", "3", "4", "5", "6", "7", "8", "9">>

DigitVal(ch) == (CHOOSE d \in 1..10 : Digits[d] = ch) - 1

\* str.split(sep)
RECURSIVE Split(_, _)
Split(str, sep) ==
    IF \A i \in 1..Len(str) : str[i] # sep
    THEN <<str>>
    ELSE LET i == CHOOSE k \in 1..Len(str) :
                      str[k] = sep /\ \A j \in 1..(k - 1) : str[j] # sep
         IN  <<SubSeq(str, 1, i - 1)>> \o Split(SubSeq(str, i + 1, Len(str)), sep)

\* str.strip()
RECURSIVE Strip(_)
Strip(str) ==
    IF str # <<>> /\ str[1] = " " THEN Strip(Tail(str))
    ELSE IF str # <<>> /\ str[Len(str)] = " " THEN Strip(SubSeq(str, 1, Len(str) - 1))
    ELSE str

\* str.isdigit()
IsDigit(str) == str # <<>> /\ \A i \in 1..Len(str) : str[i] \in Range(Digits)

\* int(str) of a string of digits
RECURSIVE ParseInt(_)
ParseInt(str) ==
    IF str = <<>> THEN 0
    ELSE 10 * ParseInt(SubSeq(str, 1, Len(str) - 1)) + DigitVal(str[Len(str)])

\* [int(idx.strip()) for idx in comp_str.split(",") if idx.strip().isdigit()]
ManualComps(comp_str) ==
    LET parts == Split(comp_str, ",")
        kept  == SelectSeq(parts, LAMBDA idx : IsDigit(Strip(idx)))
    IN  [k \in 1..Len(kept) |-> ParseInt(Strip(kept[k]))]

\* answers of the operator, each with the component indices it names
Answers ==
    {[comp_str |-> <<" ", "1", ",", "x", ",", "-", "1", ",", ",", "0", " ">>,
      indices |-> {0, 1}],
     [comp_str |-> <<"1", "0">>, indices |-> {10}]}

NoAnswer == [comp_str |-> <<>>, indices |-> {}]

\* the parse of every answer, computed once
ManualCompsOf == [a \in Answers \cup {NoAnswer} |-> ManualComps(a.comp_str)]

----------------------------------------------------------------------------
(* EEGProcessor.remove_artifacts_ica *)

\* excess kurtosis of a component, in tenths
KurtVals == {-51, 50, 51}

\* 5.0, in tenths
threshold == 50

\* list(np.where(np.abs(kurtosis_vals) > threshold)[0]): 0-based, ascending
FlaggedAtThreshold(k) == Abs(k) >= threshold

Flagged(k) == Abs(k) > threshold

WhereFlagged(kurtosis_vals) ==
    LET hits == SelectSeq([i \in 1..Len(kurtosis_vals) |-> i],
                          LAMBDA i : Flagged(kurtosis_vals[i]))
    IN  [k \in 1..Len(hits) |-> hits[k] - 1]

\* number of components ICA(n_components).fit(raw, picks) finds; 0: fit fails
NComponents(n_components, picks) ==
    IF n_components.none THEN Len(picks)
    ELSE IF n_components.v <= Len(picks) THEN n_components.v ELSE 0

remove_artifacts_ica(raw, n_components, manual, heuristic, kurtosis_vals, answer, lib_ok) ==
    LET w0 == RawCopy(Enter(heap), raw)
        w1 == RawLoadData(w0, w0.ret)
        raw_copy == w1.ret
        picks == PickTypesEeg(w1.heap[raw_copy])
        n == NComponents(n_components, picks)
        heur == IF heuristic THEN WhereFlagged(kurtosis_vals) ELSE <<>>
        components_to_exclude ==
            IF manual THEN heur \o ManualCompsOf[answer] ELSE heur
        in_range == \A x \in Range(components_to_exclude) : x < n
        w2 == IF in_range \/ lib_ok
              THEN Call(w1, "ica.apply", raw_copy,
                        IcaApply(w1.heap[raw_copy], components_to_exclude))
              ELSE [w1 EXCEPT !.exc = "LibraryError"]
        args == [raw |-> raw, n_components |-> n_components, manual |-> manual,
                 heuristic |-> heuristic]
    IN  /\ UNCHANGED <<loaderVars, _config, fs, nloads>>
        /\ IF lib_ok THEN TRUE ELSE n > 0 /\ ~in_range
        /\ IF n = 0
           THEN /\ heap' = SubSeq(w1.heap, 1, Len(heap))
                /\ last' = [op |-> "remove_artifacts_ica", exc |-> "LibraryError",
                            args |-> args, kurtosis_vals |-> <<>>, answer |-> NoAnswer,
                            exclude |-> None, ret |-> 0]
           ELSE /\ heap' = Leave(w2, heap)
                /\ last' = [op |-> "remove_artifacts_ica", exc |-> w2.exc,
                            args |-> args, kurtosis_vals |-> kurtosis_vals,
                            answer |-> answer,
                            exclude |-> Some(components_to_exclude),
                            ret |-> IF w2.exc = "none" THEN w2.ret ELSE 0]

\* the kurtosis the sources of n components can have
KurtSeqs(n) == [1..n -> KurtVals]

----------------------------------------------------------------------------
(* utils.load_raw *)

\* mne.io.read_raw_fif(filename, preload=preload, verbose=verbose)
ReadRawFif(fsys, filename, preload) == [fsys[filename].v EXCEPT !.preload = preload]

load_raw(fsys, filename, preload, verbose) == ReadRawFif(fsys, filename, preload)

----------------------------------------------------------------------------
(* The loader and the persistence helper *)

Init ==
    /\ LoaderInit
    /\ _config = DefaultConfig
    /\ heap = <<>>
    /\ fs = [f \in Filenames |-> None]
    /\ last = [op |-> "__init__", exc |-> "none"]
    /\ nloads = 0

LoadData ==
    \E ld \in SessionLoads, names \in SessionNames :
        /\ load_data(ld.filepath, ld.header, None, names)
        /\ UNCHANGED nloads

CreateMneRaw ==
    \E ch_types \in ChTypeArgs, montage \in MontageArgs, lib_ok \in BOOLEAN :
        /\ create_mne_raw(ch_types, montage, lib_ok)
        /\ UNCHANGED nloads

SaveRaw ==
    \E raw \in RawArgs(heap), filename \in Filenames, overwrite \in BOOLEAN :
        /\ save_raw(raw, filename, overwrite)
        /\ UNCHANGED nloads

Next == LoadData \/ CreateMneRaw \/ SaveRaw

Spec == Init /\ [][Next]_vars

----------------------------------------------------------------------------
(* load_data alone, over every file, header and drop list within the bounds *)

LoadFile ==
    /\ nloads < MaxLoads
    /\ nloads' = nloads + 1
    /\ \E filepath \in Paths, header \in Headers, drop_columns \in DropArgs, names \in NameArgs :
          load_data(filepath, header, drop_columns, names)

NextLoad == LoadFile

SpecLoad == Init /\ [][NextLoad]_vars

----------------------------------------------------------------------------
(* The processor, on a container read back from a file that a loader's    *)
(* container was saved to                                                 *)

\* the loader after load_data of a two-column recording and create_mne_raw
RecordedTypes == {<<"eeg", "eeg">>, <<"misc", "misc">>}

InitProc ==
    /\ channel_names = DEFAULT_CHANNEL_NAMES
    /\ \E ch_types_list \in RecordedTypes, preload \in BOOLEAN, cfg \in Configs :
          LET data == ToNumpyT(ReadCsv([exists |-> TRUE, K |-> 2, R |-> 2],
                                       [kind |-> "none", rows |-> <<>>]))
              names == Truncate(channel_names, data.shape[1])
              c == Container(data, names, ch_types_list, "standard_1020")
              saved == RawSave([f \in Filenames |-> None], c, "out.fif", TRUE).fs
          IN  /\ raw_data = Some(data)
              /\ actual_channel_names = Some(names)
              /\ fs = saved
              /\ heap = <<load_raw(saved, "out.fif", preload, FALSE)>>
              /\ _config = cfg
    /\ _mne_raw = 0
    /\ same_load = TRUE
    /\ last = [op |-> "__init__", exc |-> "none"]
    /\ nloads = 0

\* a call needs room for the copy it makes
Process ==
    /\ Len(heap) <= MaxObjs
    /\ \E raw \in 1..Len(heap) : process(raw)

RemoveArtifactsIca ==
    /\ Len(heap) <= MaxObjs
    /\ \E raw \in 1..Len(heap), n_components \in {None, Some(1)},
          manual \in BOOLEAN, heuristic \in BOOLEAN :
        LET n == NComponents(n_components, PickTypesEeg(heap[raw]))
        IN  \E kurtosis_vals \in KurtSeqs(IF heuristic THEN n ELSE 0),
               answer \in (IF manual /\ n > 0 THEN Answers ELSE {NoAnswer}),
               lib_ok \in BOOLEAN :
                remove_artifacts_ica(raw, n_components, manual, heuristic,
                                     kurtosis_vals, answer, lib_ok)

NextProc == Process \/ RemoveArtifactsIca

SpecProc == InitProc /\ [][NextProc]_vars

----------------------------------------------------------------------------
(* Properties of load_data *)

\* what the last load_data call was given
LoadedFile == last.args.filepath

ConsumedRows ==
    IF last.args.header.kind = "none" THEN 0
    ELSE Max({last.args.header.rows[i] : i \in 1..Len(last.args.header.rows)}) + 1

\* the columns (counted from 1) the drop list of the last call names
NamedColumns ==
    IF last.args.drop_columns.none THEN {}
    ELSE {IF p < 0 THEN LoadedFile.K + p + 1 ELSE p + 1 :
             p \in Range(last.args.drop_columns.v)}

\* the last call was load_data on an existing file with a header inside the
\* file and a drop list naming columns of the file
LoadParsed ==
    /\ last.op = "load_data"
    /\ LoadedFile.exists
    /\ ConsumedRows <= LoadedFile.R
    /\ NamedColumns \subseteq 1..LoadedFile.K

RemainingCount == LoadedFile.K - Cardinality(NamedColumns)

\* the c-th column of the file that is not dropped
RemainingColumn(c) ==
    CHOOSE k \in (1..LoadedFile.K) \ NamedColumns :
        Cardinality({j \in (1..LoadedFile.K) \ NamedColumns : j < k}) = c - 1

\* the names the last call had at hand
HeldNames ==
    IF last.args.channel_names.none THEN channel_names ELSE last.args.channel_names.v

\* the matrix the file of the last call holds below its header, without the
\* dropped columns, channels first
ExpectedMatrix ==
    [shape |-> <<RemainingCount, LoadedFile.R - ConsumedRows>>,
     at    |-> [c \in 1..RemainingCount |->
                  [t \in 1..(LoadedFile.R - ConsumedRows) |->
                      Cell(ConsumedRows + t, RemainingColumn(c))]]]

\* C2: with N names at hand and C columns remaining, load_data fails with
\* ValueError when N < C, and when N >= C it succeeds and the active names are
\* the first C of the N names in their order; the constructor's list keeps
\* its length.
C2_NamesTruncatedToChannelCount ==
    LoadParsed =>
        /\ Len(HeldNames) < RemainingCount
              => last.exc = "ValueError: Not enough channel names provided"
        /\ Len(HeldNames) >= RemainingCount
              => /\ last.exc = "none"
                 /\ actual_channel_names = Some([i \in 1..RemainingCount |-> HeldNames[i]])
        /\ channel_names \in {DEFAULT_CHANNEL_NAMES} \cup {cn.v : cn \in CtorNames \ {None}}

\* a load that kept two of three names
C2_Witness ==
    /\ LoadParsed
    /\ last.exc = "none"
    /\ RemainingCount = 2
    /\ Len(HeldNames) = 3

\* C3 as stated: every load of an existing file returns and stores the
\* (K - d, R - h) matrix of the remaining columns and the data rows.
C3_EveryLoadReturnsMatrix ==
    LoadParsed =>
        /\ last.exc = "none"
        /\ last.ret = Some(ExpectedMatrix)
        /\ raw_data = Some(ExpectedMatrix)

\* C3, amended: when at least K - d channel names are at hand, load_data
\* returns and stores the (K - d, R - h) matrix whose entry [c][s] is the value
\* of the c-th remaining column in the s-th data row; an empty or absent drop
\* list drops nothing.  With fewer names it raises ValueError and returns
\* nothing.
C3_LoadReturnsMatrixGivenNames ==
    LoadParsed =>
        /\ Len(HeldNames) >= RemainingCount =>
              /\ last.exc = "none"
              /\ last.ret = Some(ExpectedMatrix)
              /\ raw_data = Some(ExpectedMatrix)
              /\ ~Truthy(last.args.drop_columns) => raw_data.v.shape[1] = LoadedFile.K
        /\ Len(HeldNames) < RemainingCount =>
              /\ last.exc = "ValueError: Not enough channel names provided"
              /\ last.ret = None

\* a header row and a column were taken off a 3 x 2 file
C3_Witness ==
    /\ LoadParsed
    /\ last.exc = "none"
    /\ ConsumedRows = 1
    /\ Cardinality(NamedColumns) = 1
    /\ raw_data.v.shape = <<2, 1>>

----------------------------------------------------------------------------
(* Properties of the loader's state *)

\* C1: create_mne_raw on a loader on which no load_data call has succeeded
\* raises ValueError 'No data loaded. Call load_data() first.'
C1_NoLoadRaisesNoData ==
    (last.op = "create_mne_raw" /\ actual_channel_names.none)
        => last.exc = "ValueError: No data loaded"

\* C10: whenever raw_data is set, actual_channel_names is set, has one name
\* per row of raw_data, and both come from the same load_data call.
C10_DataAndNamesFromSameLoad ==
    ~raw_data.none =>
        /\ ~actual_channel_names.none
        /\ Len(actual_channel_names.v) = raw_data.v.shape[1]
        /\ same_load

----------------------------------------------------------------------------
(* Properties of create_mne_raw, save_raw and of failing calls *)

\* what the last create_mne_raw call did with its ch_types, C being the number
\* of rows of raw_data
ChTypesHandled ==
    LET C == raw_data.v.shape[1]
        t == last.ch_types
    IN  /\ t.kind = "str" =>
              /\ last.ch_types_list = Some([i \in 1..C |-> t.s])
              /\ last.exc = "none" => heap[last.ret].ch_types = [i \in 1..C |-> t.s]
        /\ t.kind = "seq" =>
              /\ Len(t.seq) # C => last.exc = "ValueError: Length of ch_types"
              /\ last.exc = "none" => (Len(t.seq) = C /\ heap[last.ret].ch_types = t.seq)
        /\ t.kind \notin {"str", "seq"} => last.exc = "TypeError: ch_types"

\* C7: with C channels loaded, a string type gives C entries of that string, a
\* sequence is used as it is when it has exactly C entries and raises
\* ValueError otherwise, anything else raises TypeError; a failing call builds
\* no container and leaves mne_raw as it was.
C7_ChTypesNormalised ==
    [][(last'.op = "create_mne_raw" /\ ~raw_data.none) =>
          /\ ChTypesHandled'
          /\ last'.exc # "none" => (last'.ret = 0 /\ _mne_raw' = _mne_raw /\ heap' = heap)]_vars

\* a two-channel container built from the string "eeg"
C7_Witness ==
    /\ last.op = "create_mne_raw"
    /\ last.exc = "none"
    /\ last.ch_types.kind = "str"
    /\ heap[last.ret].ch_types = <<"eeg", "eeg">>

\* C8: a call that fails leaves mne_raw and every container produced before
\* it as they were.
C8_FailureKeepsContainers ==
    [][last'.exc # "none" =>
          /\ _mne_raw' = _mne_raw
          /\ Len(heap') = Len(heap)
          /\ \A i \in 1..Len(heap) : heap'[i] = heap[i]]_vars

\* a load that failed after a container was built, and stored other data
C8_Witness ==
    /\ last.op = "load_data"
    /\ last.exc # "none"
    /\ _mne_raw # 0
    /\ ~raw_data.none
    /\ raw_data.v # heap[_mne_raw].data

\* C9: save_raw of something that is no container raises TypeError and writes
\* nothing, whatever filename and overwrite are; save_raw of a container asks
\* the container once to save itself to filename with the overwrite flag.
C9_SaveRawTypeChecked ==
    [][last'.op = "save_raw" =>
          /\ last'.args.raw.kind # "BaseRaw" =>
                /\ last'.exc = "TypeError: Expected 'raw'"
                /\ last'.saves = <<>>
                /\ fs' = fs
          /\ last'.args.raw.kind = "BaseRaw" =>
                last'.saves = <<[raw |-> last'.args.raw.id,
                                 filename |-> last'.args.filename,
                                 overwrite |-> last'.args.overwrite]>>]_vars

\* a non-container refused while the target file exists
C9_Witness ==
    /\ last.op = "save_raw"
    /\ last.args.raw.kind # "BaseRaw"
    /\ last.args.overwrite
    /\ ~fs[last.args.filename].none

----------------------------------------------------------------------------
(* Properties of the processor *)

StepNames == <<"filter", "notch_filter", "set_eeg_reference">>

\* C4: a process call that returns has called band-pass, notch and reference
\* once each, in this order, each on the result of the one before, starting
\* from the loaded copy of its argument, and returns the result of the
\* reference; a call that raises has made a prefix of these calls.
C4_PipelineOrder ==
    last.op = "process" =>
        /\ Len(last.calls) <= 3
        /\ \A k \in 1..Len(last.calls) : last.calls[k].fn = StepNames[k]
        /\ \A k \in 2..Len(last.calls) :
              /\ last.calls[k].arg = last.calls[k - 1].out
              /\ last.calls[k].raw = last.calls[k - 1].raw
        /\ Len(last.calls) >= 1 =>
              last.calls[1].arg = [heap[last.raw] EXCEPT !.preload = TRUE]
        /\ last.exc = "none" =>
              /\ Len(last.calls) = 3
              /\ last.ret = last.calls[3].raw
              /\ heap[last.ret] = last.calls[3].out

\* a pipeline run to its end with the reference kept as a projection
C4_Witness ==
    /\ last.op = "process"
    /\ last.exc = "none"
    /\ _config.projection
    /\ heap[last.ret].projs # <<>>
    /\ Len(heap[last.ret].applied) = 2

\* C5: process and remove_artifacts_ica leave every container that existed
\* before the call as it was; what they return is a new container, with its
\* data loaded.
C5_CallerContainerUntouched ==
    [][last'.op \in {"process", "remove_artifacts_ica"} =>
          /\ \A i \in 1..Len(heap) : Len(heap') >= i /\ heap'[i] = heap[i]
          /\ last'.exc = "none" =>
                /\ last'.ret \notin 1..Len(heap)
                /\ last'.ret \in 1..Len(heap')
                /\ heap'[last'.ret].preload]_vars

\* a container that is not in memory was cleaned by ICA and is still as it was
C5_Witness ==
    /\ last.op = "remove_artifacts_ica"
    /\ last.exc = "none"
    /\ ~heap[last.args.raw].preload
    /\ heap[last.ret].preload
    /\ heap[last.ret].applied # heap[last.args.raw].applied

\* C6: the indices set as ica.exclude are those of the components whose
\* absolute kurtosis is above 5.0 (heuristic enabled) together with those the
\* operator entered (manual enabled); 5.0 itself is not above.
C6_ExcludeIsUnion ==
    (last.op = "remove_artifacts_ica" /\ ~last.exclude.none) =>
        LET kv == last.kurtosis_vals
            H == IF last.args.heuristic
                 THEN {i - 1 : i \in {j \in 1..Len(kv) : kv[j] > 50 \/ kv[j] < -50}}
                 ELSE {}
            M == IF last.args.manual THEN last.answer.indices ELSE {}
        IN  /\ Range(last.exclude.v) = H \cup M
            /\ last.exc = "none" =>
                  heap[last.ret].applied[Len(heap[last.ret].applied)]
                      = [fn |-> "ica.apply", exclude |-> last.exclude.v]

\* a component at exactly 5.0 stays while another is flagged and the operator
\* names a third index
C6_Witness ==
    /\ last.op = "remove_artifacts_ica"
    /\ last.exc = "none"
    /\ last.args.heuristic /\ last.args.manual
    /\ last.kurtosis_vals = <<50, -51>>
    /\ last.answer.indices = {10}
    /\ Range(last.exclude.v) = {1, 10}

====
